---- MODULE Spec2Model ----
(***************************************************************************)
(* Monad transformers of ts-toolbox (MaybeT, ResultT, ReaderT, WriterT)    *)
(* over the inner-monad descriptors used by the test-suite (identity,      *)
(* Maybe, Result; with and without `map`).                                 *)
(*                                                                         *)
(* JavaScript values are tagged tuples.  Every modelled call returns a     *)
(* computation record [ret |-> value, tr |-> events]: the value the call   *)
(* returns and the calls it made on the way (user functions, descriptor    *)
(* operations, monoid.concat, environment functions), in order.            *)
(***************************************************************************)
EXTENDS Integers, Sequences, FiniteSets, TLC

\* Bounds of the model.
MaxNum == 1
MaxChain == 2

VARIABLES
    kind,     \* which transformer factory was built
    desc,     \* the inner-monad descriptor the factory closes over
    monoid,   \* the monoid the WriterT factory closes over ("none" otherwise)
    hist,     \* the chain so far: one entry per factory / map / flatMap call
    obs       \* the last observation: a run() or a law's two sides

vars == <<kind, desc, monoid, hist, obs>>

----------------------------------------------------------------------------
\* Values

Num(n) == <<"num", n>>
Null == <<"null">>
Undefined == <<"undefined">>
Nums == {Num(n) : n \in 0..MaxNum}
Val == Nums \cup {Null, Undefined}

\* `x ?? y` takes y exactly when x is null or undefined.
IsNullish(v) == v = Null \/ v = Undefined

Some(v) == <<"Some", v>>
None == <<"None">>
Ok(v) == <<"Ok", v>>
Err(e) == <<"Err", e>>
Pair(a, w) == <<"pair", a, w>>

isSome(m) == m[1] = "Some"
isOk(m) == m[1] = "Ok"
isErr(m) == m[1] = "Err"

\* Error values of the ResultT layer, and the error of an inner Result.
Errs == {"e1", "e2"}
InnerErrs == {"inner"}

----------------------------------------------------------------------------
\* Computations: returned value plus the calls made.  A JavaScript function
\* is a TLA+ function from its argument to the computation it performs.

Pure(v) == [ret |-> v, tr |-> <<>>]
Traced(ev, c) == [ret |-> c.ret, tr |-> <<ev>> \o c.tr]
\* c1 ran, then c2 ran; the value is c2's.
After(c1, c2) == [ret |-> c2.ret, tr |-> c1.tr \o c2.tr]
Ret(c, v) == [ret |-> v, tr |-> c.tr]

\* Calling a user function (mapped function or continuation): the call is
\* recorded with its argument and its result.
CallFn(fn, a) == [ret |-> fn[a], tr |-> << <<"fn", a, fn[a]>> >>]
Fn(fn) == [a \in DOMAIN fn |-> CallFn(fn, a)]

EvCount(tr, tag) == Len(SelectSeq(tr, LAMBDA ev : ev[1] = tag))
FnCalls(tr) == EvCount(tr, "fn")

----------------------------------------------------------------------------
\* Base monads

\* Mutant: a mapped function that returns null or undefined gives None.
Some_map_Nullable(self, fn) ==
    LET r == fn[self[2]]
    IN Ret(r, IF IsNullish(r.ret) THEN None ELSE Some(r.ret))

Some_map(self, fn) == LET r == fn[self[2]] IN Ret(r, Some(r.ret))
Some_flatMap(self, fn) == fn[self[2]]
None_map(self, fn) == Pure(None)
None_flatMap(self, fn) == Pure(None)

Maybe_map(m, fn) == IF isSome(m) THEN Some_map(m, fn) ELSE None_map(m, fn)
Maybe_flatMap(m, fn) == IF isSome(m) THEN Some_flatMap(m, fn) ELSE None_flatMap(m, fn)

Ok_map(self, fn) == LET r == fn[self[2]] IN Ret(r, Ok(r.ret))
Ok_flatMap(self, fn) == fn[self[2]]
Err_map(self, fn) == Pure(Err(self[2]))
\* Mutant: an Err is turned into a successful absent value.
Err_flatMap_AsAbsent(self, fn) == Pure(Ok(None))

Err_flatMap(self, fn) == Pure(Err(self[2]))

Result_map(m, fn) == IF isOk(m) THEN Ok_map(m, fn) ELSE Err_map(m, fn)
Result_flatMap(m, fn) == IF isOk(m) THEN Ok_flatMap(m, fn) ELSE Err_flatMap(m, fn)

\* Writer: a value and a string log
Writer(v, l) == <<"Writer", v, l>>
Writer_of(a) == Pure(Writer(a, ""))
Writer_map(self, fn) == LET r == fn[self[2]] IN Ret(r, Writer(r.ret, self[3]))

\* Mutant: the receiver's log is dropped.
Writer_flatMap_ResLogOnly(self, fn) ==
    LET res == fn[self[2]] IN Ret(res, Writer(res.ret[2], res.ret[3]))

Writer_flatMap(self, fn) ==
    LET res == fn[self[2]] IN Ret(res, Writer(res.ret[2], self[3] \o res.ret[3]))

WriterLogs == {"", "a;", "b;"}

----------------------------------------------------------------------------
\* Inner-monad descriptors { of, flatMap, map? }

DescNames == {"Identity", "Maybe", "Result"}
\* identityMonad, maybeMonad, resultMonad and monadWithoutMap of the tests.
Descs ==
    {[name |-> n, hasMap |-> TRUE] : n \in DescNames}
    \cup {[name |-> "Identity", hasMap |-> FALSE]}

\* writerMonad of the combination tests.
WriterDesc == [name |-> "Writer", hasMap |-> TRUE]

\* The values a callback handed to the descriptor can be applied to.
Inner(d, m) ==
    CASE d.name = "Identity" -> {m}
      [] d.name = "Maybe" -> IF isSome(m) THEN {m[2]} ELSE {}
      [] d.name = "Result" -> IF isOk(m) THEN {m[2]} ELSE {}
      [] d.name = "Writer" -> {m[2]}

MonadOf(d, a) ==
    Traced(<<"monad.of">>,
           Pure(CASE d.name = "Identity" -> a
                  [] d.name = "Maybe" -> Some(a)
                  [] d.name = "Result" -> Ok(a)
                  [] d.name = "Writer" -> Writer_of(a).ret))

MonadFlatMap(d, m, f) ==
    Traced(<<"monad.flatMap">>,
           CASE d.name = "Identity" -> f[m]
             [] d.name = "Maybe" -> Maybe_flatMap(m, f)
             [] d.name = "Result" -> Result_flatMap(m, f)
             [] d.name = "Writer" -> Writer_flatMap(m, f))

MonadMap(d, m, f) ==
    Traced(<<"monad.map">>,
           CASE d.name = "Identity" -> f[m]
             [] d.name = "Maybe" -> Maybe_map(m, f)
             [] d.name = "Result" -> Result_map(m, f)
             [] d.name = "Writer" -> Writer_map(m, f))

\* Mutant: monad.map?.(m, k) with no fallback behind it.
MapOrElse_NoFallback(d, viaMap, fallback) ==
    IF d.hasMap THEN viaMap ELSE Pure(Undefined)

\* monad.map?.(m, k) ?? fallback
MapOrElse(d, viaMap, fallback) ==
    IF d.hasMap
    THEN IF IsNullish(viaMap.ret) THEN After(viaMap, fallback) ELSE viaMap
    ELSE fallback

\* The values M<P> of a descriptor over payloads P.
MOf(d, P) ==
    CASE d.name = "Identity" -> P
      [] d.name = "Maybe" -> {None} \cup {Some(p) : p \in P}
      [] d.name = "Result" -> {Err(e) : e \in InnerErrs} \cup {Ok(p) : p \in P}
      [] d.name = "Writer" -> {Writer(p, l) : p \in P, l \in WriterLogs}

----------------------------------------------------------------------------
\* MaybeT

MaybeTImpl(m, monad) == [m |-> m, monad |-> monad]

MaybeT_run(self) == self.m

MaybeT_map(self, fn) ==
    LET monad == self.monad
        mapped ==
            MapOrElse(monad,
                MonadMap(monad, self.m, [maybe \in Inner(monad, self.m) |->
                    IF isSome(maybe)
                    THEN Some_map(maybe, Fn(fn))
                    ELSE Pure(None)]),
                MonadFlatMap(monad, self.m, [maybe \in Inner(monad, self.m) |->
                    IF isSome(maybe)
                    THEN LET b == Some_map(maybe, Fn(fn))
                         IN After(b, MonadOf(monad, b.ret))
                    ELSE MonadOf(monad, None)]))
    IN Ret(mapped, MaybeTImpl(mapped.ret, monad))

\* Mutant: the continuation is called whether or not the optional is present.
MaybeT_flatMap_NoShortCircuit(self, fn) ==
    LET monad == self.monad
        flatMapped ==
            MonadFlatMap(monad, self.m, [maybe \in Inner(monad, self.m) |->
                LET t == CallFn(fn, IF isSome(maybe) THEN maybe[2] ELSE Undefined)
                IN Ret(t, MaybeT_run(t.ret))])
    IN Ret(flatMapped, MaybeTImpl(flatMapped.ret, monad))

\* Mutant: the result is built over the descriptor of the instance the
\* continuation returned.
MaybeT_flatMap_Adopts(self, fn) ==
    LET monad == self.monad
        flatMapped ==
            MonadFlatMap(monad, self.m, [maybe \in Inner(monad, self.m) |->
                IF isSome(maybe)
                THEN LET t == CallFn(fn, maybe[2]) IN Ret(t, MaybeT_run(t.ret))
                ELSE MonadOf(monad, None)])
        called == SelectSeq(flatMapped.tr, LAMBDA ev : ev[1] = "fn")
    IN Ret(flatMapped,
           MaybeTImpl(flatMapped.ret,
                      IF called = <<>> THEN monad ELSE called[1][3].monad))

MaybeT_flatMap(self, fn) ==
    LET monad == self.monad
        flatMapped ==
            MonadFlatMap(monad, self.m, [maybe \in Inner(monad, self.m) |->
                IF isSome(maybe)
                THEN LET t == CallFn(fn, maybe[2]) IN Ret(t, MaybeT_run(t.ret))
                ELSE MonadOf(monad, None)])
    IN Ret(flatMapped, MaybeTImpl(flatMapped.ret, monad))

MaybeT_of(monad, a) ==
    LET c == MonadOf(monad, Some(a)) IN Ret(c, MaybeTImpl(c.ret, monad))

MaybeT_from(monad, m) == Pure(MaybeTImpl(m, monad))

\* Mutant: lift builds the optional with fromNullable.
MaybeT_lift_FromNullable(monad, m) ==
    LET c == MonadFlatMap(monad, m, [a \in Inner(monad, m) |->
                 MonadOf(monad, IF IsNullish(a) THEN None ELSE Some(a))])
    IN Ret(c, MaybeTImpl(c.ret, monad))

\* Mutant: lift keeps the inner value as it is.
MaybeT_lift_Raw(monad, m) == Pure(MaybeTImpl(m, monad))

MaybeT_lift(monad, m) ==
    LET c == MapOrElse(monad,
                 MonadMap(monad, m, [a \in Inner(monad, m) |-> Pure(Some(a))]),
                 MonadFlatMap(monad, m, [a \in Inner(monad, m) |->
                     MonadOf(monad, Some(a))]))
    IN Ret(c, MaybeTImpl(c.ret, monad))

----------------------------------------------------------------------------
\* ResultT

ResultTImpl(m, monad) == [m |-> m, monad |-> monad]

ResultT_run(self) == self.m

\* Mutant: the mapped function is also run on Err.
ResultT_map_RunsOnErr(self, fn) ==
    LET monad == self.monad
        mapped ==
            MonadFlatMap(monad, self.m, [result \in Inner(monad, self.m) |->
                IF isOk(result)
                THEN LET b == Ok_map(result, Fn(fn))
                     IN After(b, MonadOf(monad, b.ret))
                ELSE After(CallFn(fn, Undefined), MonadOf(monad, Err(result[2])))])
    IN Ret(mapped, ResultTImpl(mapped.ret, monad))

ResultT_map(self, fn) ==
    LET monad == self.monad
        mapped ==
            MapOrElse(monad,
                MonadMap(monad, self.m, [result \in Inner(monad, self.m) |->
                    IF isOk(result)
                    THEN Ok_map(result, Fn(fn))
                    ELSE Pure(Err(result[2]))]),
                MonadFlatMap(monad, self.m, [result \in Inner(monad, self.m) |->
                    IF isOk(result)
                    THEN LET b == Ok_map(result, Fn(fn))
                         IN After(b, MonadOf(monad, b.ret))
                    ELSE MonadOf(monad, Err(result[2]))]))
    IN Ret(mapped, ResultTImpl(mapped.ret, monad))

\* Mutant: the continuation is called on Err as well (Err has no value).
ResultT_flatMap_NoShortCircuit(self, fn) ==
    LET monad == self.monad
        flatMapped ==
            MonadFlatMap(monad, self.m, [result \in Inner(monad, self.m) |->
                LET t == CallFn(fn, IF isOk(result) THEN result[2] ELSE Undefined)
                IN Ret(t, ResultT_run(t.ret))])
    IN Ret(flatMapped, ResultTImpl(flatMapped.ret, monad))

ResultT_flatMap(self, fn) ==
    LET monad == self.monad
        flatMapped ==
            MonadFlatMap(monad, self.m, [result \in Inner(monad, self.m) |->
                IF isOk(result)
                THEN LET t == CallFn(fn, result[2]) IN Ret(t, ResultT_run(t.ret))
                ELSE MonadOf(monad, Err(result[2]))])
    IN Ret(flatMapped, ResultTImpl(flatMapped.ret, monad))

ResultT_of(monad, a) ==
    LET c == MonadOf(monad, Ok(a)) IN Ret(c, ResultTImpl(c.ret, monad))

ResultT_from(monad, m) == Pure(ResultTImpl(m, monad))

ResultT_lift(monad, m) ==
    LET c == MapOrElse(monad,
                 MonadMap(monad, m, [a \in Inner(monad, m) |-> Pure(Ok(a))]),
                 MonadFlatMap(monad, m, [a \in Inner(monad, m) |->
                     MonadOf(monad, Ok(a))]))
    IN Ret(c, ResultTImpl(c.ret, monad))

----------------------------------------------------------------------------
\* Monoids: string concatenation and array append

Monoids == {"string", "array"}
Monoid_empty(mon) == IF mon = "string" THEN "" ELSE <<>>
Monoid_concat(mon, a, b) ==
    [ret |-> IF mon = "string" THEN a \o b ELSE a \o b,
     tr |-> << <<"concat", a, b>> >>]

\* Logs a test computation carries or produces.
Logs(mon) == IF mon = "string" THEN {"", "a;", "b;"} ELSE {<<>>, <<"a">>, <<"b">>}

----------------------------------------------------------------------------
\* WriterT

WriterTImpl(m, monad, mon) == [m |-> m, monad |-> monad, monoid |-> mon]

WriterT_run(self) == self.m

\* Mutant: map starts the log again from monoid.empty.
WriterT_map_ResetsLog(self, fn) ==
    LET monad == self.monad
        mapped ==
            MonadFlatMap(monad, self.m, [p \in Inner(monad, self.m) |->
                LET b == CallFn(fn, p[2])
                IN After(b, MonadOf(monad, Pair(b.ret, Monoid_empty(self.monoid))))])
    IN Ret(mapped, WriterTImpl(mapped.ret, monad, self.monoid))

WriterT_map(self, fn) ==
    LET monad == self.monad
        mapped ==
            MapOrElse(monad,
                MonadMap(monad, self.m, [p \in Inner(monad, self.m) |->
                    LET b == CallFn(fn, p[2]) IN Ret(b, Pair(b.ret, p[3]))]),
                MonadFlatMap(monad, self.m, [p \in Inner(monad, self.m) |->
                    LET b == CallFn(fn, p[2])
                    IN After(b, MonadOf(monad, Pair(b.ret, p[3])))]))
    IN Ret(mapped, WriterTImpl(mapped.ret, monad, self.monoid))

\* Mutant: the continuation's log is dropped.
WriterT_flatMap_DropsLog(self, fn) ==
    LET monad == self.monad
        flatMapped ==
            MonadFlatMap(monad, self.m, [p \in Inner(monad, self.m) |->
                LET a == p[2]
                    w == p[3]
                    nb == CallFn(fn, a)
                IN After(nb,
                       MonadFlatMap(monad, WriterT_run(nb.ret),
                           [q \in Inner(monad, WriterT_run(nb.ret)) |->
                               MonadOf(monad, Pair(q[2], w))]))])
    IN Ret(flatMapped, WriterTImpl(flatMapped.ret, monad, self.monoid))

\* Mutant: the log so far is appended once more after the continuation's.
WriterT_flatMap_Rewrap(self, fn) ==
    LET monad == self.monad
        flatMapped ==
            MonadFlatMap(monad, self.m, [p \in Inner(monad, self.m) |->
                LET a == p[2]
                    w == p[3]
                    nb == CallFn(fn, a)
                IN After(nb,
                       MonadFlatMap(monad, WriterT_run(nb.ret),
                           [q \in Inner(monad, WriterT_run(nb.ret)) |->
                               LET b == q[2]
                                   w2 == q[3]
                                   combined == Monoid_concat(self.monoid, w, w2)
                                   again == Monoid_concat(self.monoid, combined.ret, w)
                               IN After(After(combined, again),
                                        MonadOf(monad, Pair(b, again.ret)))]))])
    IN Ret(flatMapped, WriterTImpl(flatMapped.ret, monad, self.monoid))

\* Mutant: the logs are combined as concat(w2, w).
WriterT_flatMap_Swapped(self, fn) ==
    LET monad == self.monad
        flatMapped ==
            MonadFlatMap(monad, self.m, [p \in Inner(monad, self.m) |->
                LET a == p[2]
                    w == p[3]
                    nb == CallFn(fn, a)
                IN After(nb,
                       MonadFlatMap(monad, WriterT_run(nb.ret),
                           [q \in Inner(monad, WriterT_run(nb.ret)) |->
                               LET b == q[2]
                                   w2 == q[3]
                                   combined == Monoid_concat(self.monoid, w2, w)
                               IN After(combined,
                                        MonadOf(monad, Pair(b, combined.ret)))]))])
    IN Ret(flatMapped, WriterTImpl(flatMapped.ret, monad, self.monoid))

WriterT_flatMap(self, fn) ==
    LET monad == self.monad
        flatMapped ==
            MonadFlatMap(monad, self.m, [p \in Inner(monad, self.m) |->
                LET a == p[2]
                    w == p[3]
                    nb == CallFn(fn, a)
                IN After(nb,
                       MonadFlatMap(monad, WriterT_run(nb.ret),
                           [q \in Inner(monad, WriterT_run(nb.ret)) |->
                               LET b == q[2]
                                   w2 == q[3]
                                   combined == Monoid_concat(self.monoid, w, w2)
                               IN After(combined,
                                        MonadOf(monad, Pair(b, combined.ret)))]))])
    IN Ret(flatMapped, WriterTImpl(flatMapped.ret, monad, self.monoid))

WriterT_of(monad, mon, a) ==
    LET c == MonadOf(monad, Pair(a, Monoid_empty(mon)))
    IN Ret(c, WriterTImpl(c.ret, monad, mon))

WriterT_from(monad, mon, m) == Pure(WriterTImpl(m, monad, mon))

WriterT_lift(monad, mon, m) ==
    LET c == MapOrElse(monad,
                 MonadMap(monad, m, [a \in Inner(monad, m) |->
                     Pure(Pair(a, Monoid_empty(mon)))]),
                 MonadFlatMap(monad, m, [a \in Inner(monad, m) |->
                     MonadOf(monad, Pair(a, Monoid_empty(mon)))]))
    IN Ret(c, WriterTImpl(c.ret, monad, mon))

----------------------------------------------------------------------------
\* ReaderT: the wrapped environment function maps an environment to the
\* computation that calling it performs.

Env == 0..MaxNum

ReaderTImpl(fn, monad) == [fn |-> fn, monad |-> monad]

\* Mutant: the instance keeps the environment of its previous run and uses
\* it for the next one.
ReaderT_run_StaleEnv(self, r) ==
    IF obs.op = "run" THEN self.fn[obs.env]
    ELSE IF obs.op = "runs" THEN self.fn[obs.runs[Len(obs.runs)].env]
    ELSE self.fn[r]

ReaderT_run(self, r) == self.fn[r]

\* Calling a user-supplied environment function (an [id, app] record).
CallEnvFn(f, r) == [ret |-> f.app[r], tr |-> << <<"envfn", f.id, r>> >>]

ReaderT_map(self, fn) ==
    LET monad == self.monad
    IN Pure(ReaderTImpl(
           [r \in Env |->
               MapOrElse(monad,
                   LET m == self.fn[r]
                   IN After(m, MonadMap(monad, m.ret, Fn(fn))),
                   LET m == self.fn[r]
                   IN After(m, MonadFlatMap(monad, m.ret,
                          [a \in Inner(monad, m.ret) |->
                              LET b == CallFn(fn, a)
                              IN After(b, MonadOf(monad, b.ret))])))],
           monad))

\* Mutant: flatMap runs the receiver once while the new reader is built.
ReaderT_flatMap_Eager(self, fn) ==
    LET monad == self.monad
    IN After(ReaderT_run(self, 0),
             Pure(ReaderTImpl(
                 [r \in Env |->
                     LET m == ReaderT_run(self, r)
                     IN After(m, MonadFlatMap(monad, m.ret,
                            [a \in Inner(monad, m.ret) |->
                                LET t == CallFn(fn, a)
                                IN After(t, ReaderT_run(t.ret, r))]))],
                 monad)))

\* Mutant: the continuation's reader is run with a fixed environment.
ReaderT_flatMap_StaleEnv(self, fn) ==
    LET monad == self.monad
    IN Pure(ReaderTImpl(
           [r \in Env |->
               LET m == ReaderT_run(self, r)
               IN After(m, MonadFlatMap(monad, m.ret,
                      [a \in Inner(monad, m.ret) |->
                          LET t == CallFn(fn, a)
                          IN After(t, ReaderT_run(t.ret, 0))]))],
           monad))

ReaderT_flatMap(self, fn) ==
    LET monad == self.monad
    IN Pure(ReaderTImpl(
           [r \in Env |->
               LET m == ReaderT_run(self, r)
               IN After(m, MonadFlatMap(monad, m.ret,
                      [a \in Inner(monad, m.ret) |->
                          LET t == CallFn(fn, a)
                          IN After(t, ReaderT_run(t.ret, r))]))],
           monad))

\* Mutant: of wraps the environment instead of the given value.
ReaderT_of_Ask(monad, a) ==
    Pure(ReaderTImpl([r \in Env |-> MonadOf(monad, Num(r))], monad))

ReaderT_of(monad, a) == Pure(ReaderTImpl([r \in Env |-> MonadOf(monad, a)], monad))

\* Mutant: from applies the function to one fixed environment.
ReaderT_from_FixedEnv(monad, f) ==
    Pure(ReaderTImpl([r \in Env |-> CallEnvFn(f, 0)], monad))

ReaderT_from(monad, f) == Pure(ReaderTImpl([r \in Env |-> CallEnvFn(f, r)], monad))

ReaderT_lift(monad, m) == Pure(ReaderTImpl([r \in Env |-> Pure(m)], monad))

----------------------------------------------------------------------------
\* The uniform interface of the four transformers

Kinds == {"MaybeT", "ResultT", "ReaderT", "WriterT"}

T_of(k, d, mon, a) ==
    CASE k = "MaybeT" -> MaybeT_of(d, a)
      [] k = "ResultT" -> ResultT_of(d, a)
      [] k = "ReaderT" -> ReaderT_of(d, a)
      [] k = "WriterT" -> WriterT_of(d, mon, a)

T_from(k, d, mon, m) ==
    CASE k = "MaybeT" -> MaybeT_from(d, m)
      [] k = "ResultT" -> ResultT_from(d, m)
      [] k = "ReaderT" -> ReaderT_from(d, m)
      [] k = "WriterT" -> WriterT_from(d, mon, m)

T_lift(k, d, mon, m) ==
    CASE k = "MaybeT" -> MaybeT_lift(d, m)
      [] k = "ResultT" -> ResultT_lift(d, m)
      [] k = "ReaderT" -> ReaderT_lift(d, m)
      [] k = "WriterT" -> WriterT_lift(d, mon, m)

T_map(k, self, fn) ==
    CASE k = "MaybeT" -> MaybeT_map(self, fn)
      [] k = "ResultT" -> ResultT_map(self, fn)
      [] k = "ReaderT" -> ReaderT_map(self, fn)
      [] k = "WriterT" -> WriterT_map(self, fn)

T_flatMap(k, self, fn) ==
    CASE k = "MaybeT" -> MaybeT_flatMap(self, fn)
      [] k = "ResultT" -> ResultT_flatMap(self, fn)
      [] k = "ReaderT" -> ReaderT_flatMap(self, fn)
      [] k = "WriterT" -> WriterT_flatMap(self, fn)

T_run(k, self, r) ==
    CASE k = "MaybeT" -> Pure(MaybeT_run(self))
      [] k = "ResultT" -> Pure(ResultT_run(self))
      [] k = "ReaderT" -> ReaderT_run(self, r)
      [] k = "WriterT" -> Pure(WriterT_run(self))

----------------------------------------------------------------------------
\* Inputs of the calls: wrapped values, environment functions, mapped
\* functions and continuations over the bounded value set

\* Effect<A>: the transformer's own layer around a value.
Effect(k, mon) ==
    CASE k = "MaybeT" -> {None} \cup {Some(v) : v \in Val}
      [] k = "ResultT" -> {Err(e) : e \in Errs} \cup {Ok(v) : v \in Val}
      [] k = "ReaderT" -> Val
      [] k = "WriterT" -> {Pair(v, w) : v \in Nums, w \in Logs(mon)}

\* Environment functions env => M<A>: one that reads the environment and
\* the constant ones.
EnvFns(d) ==
    {[id |-> <<"ask">>, app |-> [r \in Env |-> MonadOf(d, Num(r)).ret]]}
    \cup {[id |-> <<"const", m>>, app |-> [r \in Env |-> m]] :
             m \in MOf(d, {Num(0), Null})}

\* What `from` can be given.
FromArgs(k, d, mon) ==
    IF k = "ReaderT" THEN EnvFns(d) ELSE MOf(d, Effect(k, mon))

\* Mapped functions: the identity changed at one point.
MapFns == {[v \in Val |-> IF v = p THEN r ELSE v] : p \in Val, r \in Val}

\* Continuations: x => T.of(x), changed at one point to return an instance
\* built by `from`.
Conts(k, d, mon) ==
    {[v \in Val |-> IF v = p THEN T_from(k, d, mon, x).ret
                             ELSE T_of(k, d, mon, v).ret] :
        p \in Nums, x \in FromArgs(k, d, mon)}

----------------------------------------------------------------------------
\* The state machine: a factory is built, an instance is made with
\* of / from / lift, map and flatMap extend the chain, run observes it.

NoObs == [op |-> "none"]
Entry(op, c) == [op |-> op, inst |-> c.ret, tr |-> c.tr]
Cur == hist[Len(hist)].inst

Factory(k) ==
    /\ kind = k
    /\ desc \in Descs
    /\ monoid \in (IF k = "WriterT" THEN Monoids ELSE {"none"})
    /\ hist = <<>>
    /\ obs = NoObs

Init == \E k \in Kinds : Factory(k)

Of(a) ==
    /\ hist = <<>>
    /\ hist' = <<Entry("of", T_of(kind, desc, monoid, a))>>
    /\ obs' = NoObs
    /\ UNCHANGED <<kind, desc, monoid>>

From(m) ==
    /\ hist = <<>>
    /\ hist' = <<Entry("from", T_from(kind, desc, monoid, m))>>
    /\ obs' = NoObs
    /\ UNCHANGED <<kind, desc, monoid>>

Lift(m) ==
    /\ hist = <<>>
    /\ hist' = <<Entry("lift", T_lift(kind, desc, monoid, m))>>
    /\ obs' = NoObs
    /\ UNCHANGED <<kind, desc, monoid>>

Map(fn) ==
    /\ Len(hist) \in 1..MaxChain
    /\ hist' = Append(hist, Entry("map", T_map(kind, Cur, fn)))
    /\ obs' = NoObs
    /\ UNCHANGED <<kind, desc, monoid>>

FlatMap(fn) ==
    /\ Len(hist) \in 1..MaxChain
    /\ hist' = Append(hist, Entry("flatMap", T_flatMap(kind, Cur, fn)))
    /\ obs' = NoObs
    /\ UNCHANGED <<kind, desc, monoid>>

Run(r) ==
    /\ hist # <<>>
    /\ LET c == T_run(kind, Cur, r)
       IN obs' = [op |-> "run", env |-> r, ret |-> c.ret, tr |-> c.tr]
    /\ UNCHANGED <<kind, desc, monoid, hist>>

Chain ==
    \/ \E fn \in MapFns : Map(fn)
    \/ \E fn \in Conts(kind, desc, monoid) : FlatMap(fn)
    \/ \E r \in (IF kind = "ReaderT" THEN Env ELSE {0}) : Run(r)

NextChain ==
    \/ \E a \in Val : Of(a)
    \/ \E m \in FromArgs(kind, desc, monoid) : From(m)
    \/ Chain

\* Chains of one transformer kind.
SpecMaybeT == Factory("MaybeT") /\ [][NextChain]_vars
SpecResultT == Factory("ResultT") /\ [][NextChain]_vars
SpecReaderT == Factory("ReaderT") /\ [][NextChain]_vars
SpecWriterT == Factory("WriterT") /\ [][NextChain]_vars

----------------------------------------------------------------------------
\* The laws, as the test suites state them: both sides of an equation are
\* built from a freshly made instance and compared once, after run().

\* run() of an instance; a reader is run under every environment.
RunAll(k, inst) ==
    IF k = "ReaderT" THEN [r \in Env |-> ReaderT_run(inst, r).ret]
                     ELSE T_run(k, inst, 0).ret

\* x => f(x).flatMap(g)
ComposeK(k, f, g) == [x \in DOMAIN f |-> T_flatMap(k, f[x], g).ret]

\* x => g(f(x))
ComposeFn(f, g) == [x \in DOMAIN f |-> g[f[x]]]

\* x => T.of(x)
OfK(k, d, mon) == [x \in Val |-> T_of(k, d, mon, x).ret]

\* The same instance over the descriptor with / without map.
WithMap(d, b) == [d EXCEPT !.hasMap = b]
OverMonad(inst, d) == [inst EXCEPT !.monad = d]

LawAssociativity(f, g) ==
    /\ Len(hist) = 1 /\ obs = NoObs
    /\ LET mf == T_flatMap(kind, Cur, f).ret
       IN obs' = [op |-> "associativity",
                  mid |-> RunAll(kind, mf),
                  lhs |-> RunAll(kind, T_flatMap(kind, mf, g).ret),
                  rhs |-> RunAll(kind,
                              T_flatMap(kind, Cur, ComposeK(kind, f, g)).ret)]
    /\ UNCHANGED <<kind, desc, monoid, hist>>

LawLeftIdentity(a, f) ==
    /\ hist = <<>> /\ obs = NoObs
    /\ obs' = [op |-> "leftIdentity",
               a |-> a,
               lhs |-> RunAll(kind,
                           T_flatMap(kind, T_of(kind, desc, monoid, a).ret, f).ret),
               rhs |-> RunAll(kind, f[a])]
    /\ UNCHANGED <<kind, desc, monoid, hist>>

LawRightIdentity ==
    /\ Len(hist) = 1 /\ obs = NoObs
    /\ obs' = [op |-> "rightIdentity",
               lhs |-> RunAll(kind,
                           T_flatMap(kind, Cur, OfK(kind, desc, monoid)).ret),
               rhs |-> RunAll(kind, Cur)]
    /\ UNCHANGED <<kind, desc, monoid, hist>>

LawComposition(f, g) ==
    /\ Len(hist) = 1 /\ obs = NoObs
    /\ LET mf == T_map(kind, Cur, f).ret
       IN obs' = [op |-> "composition",
                  mid |-> RunAll(kind, mf),
                  lhs |-> RunAll(kind, T_map(kind, mf, g).ret),
                  rhs |-> RunAll(kind, T_map(kind, Cur, ComposeFn(f, g)).ret)]
    /\ UNCHANGED <<kind, desc, monoid, hist>>

\* map and lift over the descriptor without map (lhs) and with it (rhs).
LawFallback(fn, m) ==
    /\ Len(hist) = 1 /\ obs = NoObs
    /\ LET without == WithMap(desc, FALSE)
           with == WithMap(desc, TRUE)
       IN obs' = [op |-> "fallback",
                  lifted |-> m,
                  lhs |-> RunAll(kind, T_map(kind, OverMonad(Cur, without), fn).ret),
                  rhs |-> RunAll(kind, T_map(kind, OverMonad(Cur, with), fn).ret),
                  liftLhs |-> RunAll(kind, T_lift(kind, without, monoid, m).ret),
                  liftRhs |-> RunAll(kind, T_lift(kind, with, monoid, m).ret)]
    /\ UNCHANGED <<kind, desc, monoid, hist>>

\* x => x
IdFn == [v \in Val |-> v]

LawIdentity ==
    /\ Len(hist) = 1 /\ obs = NoObs
    /\ obs' = [op |-> "identity",
               lhs |-> RunAll(kind, T_map(kind, Cur, IdFn).ret),
               rhs |-> RunAll(kind, Cur)]
    /\ UNCHANGED <<kind, desc, monoid, hist>>

\* of(a) and lift(m) of the reader factory, run under every environment.
LawConstant(a, m) ==
    /\ hist = <<>> /\ obs = NoObs
    /\ kind = "ReaderT"
    /\ obs' = [op |-> "constant",
               a |-> a,
               m |-> m,
               ofRuns |-> RunAll(kind, ReaderT_of(desc, a).ret),
               liftRuns |-> RunAll(kind, ReaderT_lift(desc, m).ret)]
    /\ UNCHANGED <<kind, desc, monoid, hist>>

\* T.lift(descriptor.of(a)), without and with descriptor.map, and T.of(a).
LawLiftOf(a) ==
    /\ hist = <<>> /\ obs = NoObs
    /\ LET without == WithMap(desc, FALSE)
           with == WithMap(desc, TRUE)
       IN obs' = [op |-> "liftOf",
                  a |-> a,
                  lhs |-> RunAll(kind,
                              T_lift(kind, without, monoid, MonadOf(without, a).ret).ret),
                  lhsMap |-> RunAll(kind,
                                 T_lift(kind, with, monoid, MonadOf(with, a).ret).ret),
                  rhs |-> RunAll(kind, T_of(kind, desc, monoid, a).ret)]
    /\ UNCHANGED <<kind, desc, monoid, hist>>

\* T.from(m).run()
LawFromRun(m) ==
    /\ hist = <<>> /\ obs = NoObs
    /\ obs' = [op |-> "fromRun",
               arg |-> m,
               ran |-> RunAll(kind, T_from(kind, desc, monoid, m).ret)]
    /\ UNCHANGED <<kind, desc, monoid, hist>>

NextLaws ==
    \/ \E a \in Val : Of(a)
    \/ \E m \in FromArgs(kind, desc, monoid) : From(m)
    \/ \E m \in MOf(desc, Val) : Lift(m)
    \/ \E f, g \in Conts(kind, desc, monoid) : LawAssociativity(f, g)
    \/ \E a \in Val, f \in Conts(kind, desc, monoid) : LawLeftIdentity(a, f)
    \/ LawRightIdentity
    \/ \E f, g \in MapFns : LawComposition(f, g)
    \/ \E fn \in MapFns, m \in MOf(desc, Val) : LawFallback(fn, m)
    \/ LawIdentity
    \/ \E a \in Val, m \in MOf(desc, Val) : LawConstant(a, m)
    \/ \E a \in Val : LawLiftOf(a)
    \/ \E m \in FromArgs(kind, desc, monoid) : LawFromRun(m)

\* The laws over all four transformers.
SpecLaws == Init /\ [][NextLaws]_vars

----------------------------------------------------------------------------
\* Running one reader several times

\* The runs of the current instance so far.
Ran == IF obs.op = "run" THEN << [env |-> obs.env, ret |-> obs.ret] >>
                         ELSE obs.runs

\* A further run(env) of the same instance.
RunAgain(r) ==
    /\ obs.op \in {"run", "runs"}
    /\ Len(Ran) < 3
    /\ obs' = [op |-> "runs",
               runs |-> Append(Ran, [env |-> r, ret |-> T_run(kind, Cur, r).ret])]
    /\ UNCHANGED <<kind, desc, monoid, hist>>

NextRuns ==
    \/ \E a \in Val : Of(a)
    \/ \E m \in FromArgs(kind, desc, monoid) : From(m)
    \/ \E m \in MOf(desc, Val) : Lift(m)
    \/ Len(hist) = 1 /\ \E fn \in MapFns : Map(fn)
    \/ Len(hist) = 1 /\ \E fn \in Conts(kind, desc, monoid) : FlatMap(fn)
    \/ \E r \in Env : Run(r)
    \/ \E r \in Env : RunAgain(r)

\* One reader, run up to three times.
SpecReaderRuns == Factory("ReaderT") /\ [][NextRuns]_vars

----------------------------------------------------------------------------
\* MaybeT and ResultT over the Writer inner monad: a value, one or two
\* flatMap steps, run().

OverWriter ==
    /\ kind \in {"MaybeT", "ResultT"}
    /\ desc = WriterDesc
    /\ monoid = "none"
    /\ hist = <<>>
    /\ obs = NoObs

NextOverWriter ==
    \/ \E a \in Val : Of(a)
    \/ \E m \in FromArgs(kind, desc, monoid) : From(m)
    \/ Len(hist) < 3 /\ \E fn \in Conts(kind, desc, monoid) : FlatMap(fn)
    \/ Run(0)

SpecOverWriter == OverWriter /\ [][NextOverWriter]_vars

----------------------------------------------------------------------------
\* Several calls on the same receiver.  Here hist is the heap of instances:
\* an instance's position is its identity, and every map / flatMap call may
\* take any instance made so far as its receiver.

\* Mutant: the method writes its result into the receiver.
New_InPlace(heap, obj) == [heap EXCEPT ![obj.recv] = obj]

\* return new XImpl(...): a fresh object.
New(heap, obj) == Append(heap, obj)

MapOn(i, fn) ==
    /\ Len(hist) < 3
    /\ LET c == T_map(kind, hist[i].inst, fn)
       IN hist' = New(hist, [op |-> "map", recv |-> i, inst |-> c.ret, tr |-> c.tr])
    /\ UNCHANGED <<kind, desc, monoid, obs>>

FlatMapOn(i, fn) ==
    /\ Len(hist) < 3
    /\ LET c == T_flatMap(kind, hist[i].inst, fn)
       IN hist' = New(hist, [op |-> "flatMap", recv |-> i, inst |-> c.ret, tr |-> c.tr])
    /\ UNCHANGED <<kind, desc, monoid, obs>>

NextBranch ==
    \/ \E a \in Val : Of(a)
    \/ \E m \in FromArgs(kind, desc, monoid) : From(m)
    \/ \E i \in 1..Len(hist), fn \in MapFns : MapOn(i, fn)
    \/ \E i \in 1..Len(hist), fn \in Conts(kind, desc, monoid) : FlatMapOn(i, fn)

SpecBranch == Init /\ [][NextBranch]_vars

----------------------------------------------------------------------------
\* Reading the chain

Steps == 1..Len(hist)

\* The transformer's own layer inside the wrapped M value (none when the
\* inner monad itself failed).
Layer(inst) == Inner(inst.monad, inst.m)
OptAbsent(inst) == None \in Layer(inst)
OptPresent(inst) == \E e \in Layer(inst) : isSome(e)
LayerErrs(inst) == {e[2] : e \in {x \in Layer(inst) : isErr(x)}}
LayerOk(inst) == \E e \in Layer(inst) : isOk(e)

\* The user-function calls a step made.
CallsOf(entry) == SelectSeq(entry.tr, LAMBDA ev : ev[1] = "fn")

----------------------------------------------------------------------------
\* C1: MaybeT short-circuit.  Once the optional layer of a chain is absent,
\* no continuation of a later flatMap is invoked, every later instance has
\* an absent optional layer, and so has the value run() returns.
C1_MaybeTShortCircuit ==
    kind = "MaybeT" =>
        /\ \A i, j \in Steps :
              (i < j /\ OptAbsent(hist[i].inst) /\ hist[j].op = "flatMap")
                  => (FnCalls(hist[j].tr) = 0 /\ OptAbsent(hist[j].inst))
        /\ (obs.op = "run" /\ \E i \in Steps : OptAbsent(hist[i].inst))
              => None \in Inner(desc, obs.ret)

\* A present value, a continuation that returned absent, one more flatMap,
\* then run().
C1_Witness ==
    /\ kind = "MaybeT"
    /\ Len(hist) = 3
    /\ OptPresent(hist[1].inst)
    /\ hist[2].op = "flatMap" /\ FnCalls(hist[2].tr) = 1 /\ OptAbsent(hist[2].inst)
    /\ hist[3].op = "flatMap"
    /\ obs.op = "run"

\* C2: ResultT first-error preservation.  After the first Err of a chain of
\* map and flatMap calls no mapped function or continuation is invoked, every
\* later instance carries that same error, and so does the value run()
\* returns.
C2_ResultTFirstError ==
    kind = "ResultT" =>
        /\ \A i, j \in Steps :
              (i < j /\ LayerErrs(hist[i].inst) # {})
                  => /\ FnCalls(hist[j].tr) = 0
                     /\ LayerErrs(hist[j].inst) = LayerErrs(hist[i].inst)
                     /\ ~LayerOk(hist[j].inst)
        /\ \A i \in Steps :
              (obs.op = "run" /\ LayerErrs(hist[i].inst) # {})
                  => Inner(desc, obs.ret) = {Err(e) : e \in LayerErrs(hist[i].inst)}

\* An Ok value, a continuation that returned Err, a later flatMap, run().
C2_Witness ==
    /\ kind = "ResultT"
    /\ Len(hist) = 3
    /\ LayerOk(hist[1].inst)
    /\ hist[2].op = "flatMap" /\ LayerErrs(hist[2].inst) = {"e1"}
    /\ hist[3].op = "flatMap"
    /\ obs.op = "run"

\* The log a flatMap step's continuation produced (identity descriptor).
Produced(entry) == CallsOf(entry)[1][3].m[3]
StepLog(i) == IF i = 1 THEN hist[1].inst.m[3] ELSE Produced(hist[i])

RECURSIVE LeftFold(_)
LeftFold(n) == IF n = 1 THEN StepLog(1) ELSE LeftFold(n - 1) \o StepLog(n)

\* C3: WriterT log ordering over the identity descriptor.  After n >= 1
\* flatMap steps the log of run() is the left-to-right fold of the logs
\* w0, w1, ..., wn, and every step calls concat once, with the log so far as
\* the left argument and the continuation's log as the right one.
C3_WriterTLogOrder ==
    (/\ kind = "WriterT" /\ desc.name = "Identity"
     /\ Len(hist) >= 2
     /\ \A i \in Steps : i > 1 => hist[i].op = "flatMap")
    => /\ WriterT_run(Cur)[3] = LeftFold(Len(hist))
       /\ obs.op = "run" => obs.ret[3] = LeftFold(Len(hist))
       /\ \A i \in Steps : i > 1 =>
             SelectSeq(hist[i].tr, LAMBDA ev : ev[1] = "concat")
                 = << <<"concat", hist[i - 1].inst.m[3], Produced(hist[i])>> >>

\* Two steps whose logs do not commute.
C3_Witness ==
    /\ kind = "WriterT" /\ desc.name = "Identity" /\ monoid = "array"
    /\ Len(hist) = 3
    /\ hist[2].op = "flatMap" /\ hist[3].op = "flatMap"
    /\ StepLog(1) = <<"a">> /\ StepLog(2) = <<"b">> /\ StepLog(3) = <<"a">>
    /\ obs.op = "run" /\ obs.ret[3] = <<"a", "b", "a">>

\* C4: ReaderT environment threading.  Every environment function that one
\* run(env) invokes, the original one and those of the readers returned by
\* the continuations, is called with env.
C4_ReaderTSameEnv ==
    (kind = "ReaderT" /\ obs.op = "run") =>
        \A n \in 1..Len(obs.tr) :
            obs.tr[n][1] = "envfn" => obs.tr[n][3] = obs.env

\* A reader and a continuation's reader both read a non-default environment.
C4_Witness ==
    /\ kind = "ReaderT"
    /\ Len(hist) = 3
    /\ hist[2].op = "flatMap" /\ hist[3].op = "flatMap"
    /\ obs.op = "run" /\ obs.env = 1
    /\ EvCount(obs.tr, "envfn") = 3
    /\ FnCalls(obs.tr) = 2

\* C5: associativity.  For every transformer, descriptor, instance m and
\* continuations f, g, m.flatMap(f).flatMap(g) and
\* m.flatMap(x => f(x).flatMap(g)) are equal after run() (a reader: under
\* every environment).
C5_Associativity ==
    obs.op = "associativity" => obs.lhs = obs.rhs

\* Three logs that do not commute, over the Result descriptor.
C5_Witness ==
    /\ obs.op = "associativity"
    /\ kind = "WriterT" /\ desc.name = "Result" /\ monoid = "string"
    /\ isOk(Cur.m) /\ Cur.m[2][3] = "a;"
    /\ isOk(obs.mid) /\ obs.mid[2][3] = "a;b;"
    /\ isOk(obs.lhs) /\ obs.lhs[2][3] = "a;b;a;"

\* C6: left identity.  For every transformer, descriptor, value a and
\* continuation f, T.of(a).flatMap(f) and f(a) are equal after run().
C6_LeftIdentity ==
    obs.op = "leftIdentity" => obs.lhs = obs.rhs

\* A continuation that returns a non-empty log, over the Maybe descriptor.
C6_Witness ==
    /\ obs.op = "leftIdentity"
    /\ kind = "WriterT" /\ desc.name = "Maybe" /\ monoid = "string"
    /\ obs.a = Num(1)
    /\ obs.lhs = Some(Pair(Num(0), "b;"))

\* C7: right identity.  For every transformer, descriptor and instance m,
\* m.flatMap(x => T.of(x)) and m are equal after run().
C7_RightIdentity ==
    obs.op = "rightIdentity" => obs.lhs = obs.rhs

\* An absent optional over the Result descriptor.
C7_Witness ==
    /\ obs.op = "rightIdentity"
    /\ kind = "MaybeT" /\ desc.name = "Result"
    /\ OptAbsent(Cur)
    /\ obs.lhs = Ok(None)

\* C8: fallback equivalence.  For every transformer, for map and for lift,
\* the descriptor without map and the same descriptor with map give equal
\* results after run().
C8_FallbackEquivalence ==
    obs.op = "fallback" =>
        /\ obs.lhs = obs.rhs
        /\ obs.liftLhs = obs.liftRhs

\* A present value changed by the mapped function, and a lifted value.
C8_Witness ==
    /\ obs.op = "fallback"
    /\ kind = "MaybeT" /\ desc.name = "Maybe"
    /\ Cur.m = Some(Some(Num(0)))
    /\ obs.lhs = Some(Some(Num(1)))
    /\ obs.lifted = Some(Num(1)) /\ obs.liftLhs = Some(Some(Num(1)))

\* C9: with a descriptor that supplies map, ReaderT.from(f).map(fn).run(env)
\* calls f once, calls fn once per inner value, and never calls the
\* descriptor's flatMap or of.
C9_MapNeverFallsBack ==
    (/\ kind = "ReaderT" /\ desc.hasMap
     /\ Len(hist) = 2 /\ hist[1].op = "from" /\ hist[2].op = "map"
     /\ obs.op = "run")
    => /\ EvCount(obs.tr, "envfn") = 1
       /\ FnCalls(obs.tr)
              = Cardinality(Inner(desc, ReaderT_run(hist[1].inst, obs.env).ret))
       /\ EvCount(obs.tr, "monad.flatMap") = 0
       /\ EvCount(obs.tr, "monad.of") = 0

\* C10: functor composition.  For every transformer, descriptor, instance m
\* and functions f, g, m.map(f).map(g) and m.map(x => g(f(x))) are equal
\* after run().
C10_FunctorComposition ==
    obs.op = "composition" => obs.lhs = obs.rhs

\* An Ok value that f changes and g changes back.
C10_Witness ==
    /\ obs.op = "composition"
    /\ kind = "ResultT" /\ desc.name = "Identity" /\ desc.hasMap
    /\ Cur.m = Ok(Num(0))
    /\ obs.mid = Ok(Null)
    /\ obs.lhs = Ok(Num(1))

\* C11: functor identity.  For every transformer, descriptor and instance m,
\* m.map(x => x) and m are equal after run() (a reader: under every
\* environment).
C11_FunctorIdentity ==
    obs.op = "identity" => obs.lhs = obs.rhs

\* A present null under the identity descriptor with map: the mapped
\* function returns null.
C11_Witness ==
    /\ obs.op = "identity"
    /\ kind = "MaybeT" /\ desc.name = "Identity" /\ desc.hasMap
    /\ Cur.m = Some(Null)
    /\ obs.lhs = Some(Null)

C13_OfLiftIgnoreEnv ==
    obs.op = "constant" =>
        \A e1, e2 \in Env :
            /\ obs.ofRuns[e1] = MonadOf(desc, obs.a).ret
            /\ obs.ofRuns[e2] = obs.ofRuns[e1]
            /\ obs.liftRuns[e1] = obs.m
            /\ obs.liftRuns[e2] = obs.liftRuns[e1]

\* of(1) and lift(Err) over the Result descriptor.
C13_Witness ==
    /\ obs.op = "constant"
    /\ kind = "ReaderT" /\ desc.name = "Result"
    /\ obs.a = Num(1) /\ obs.ofRuns[0] = Ok(Num(1))
    /\ isErr(obs.m) /\ obs.liftRuns[1] = obs.m

\* The transformer's layer has failed: absent (MaybeT) or Err (ResultT).
Failed(inst) == OptAbsent(inst) \/ LayerErrs(inst) # {}

\* C14: short-circuit keeps the Writer log.  Over the Writer inner monad, a
\* flatMap step on a failed (absent / Err) computation invokes nothing and
\* leaves the Writer value, log included, as it was; a step on a successful
\* one appends exactly its continuation's log; run() returns that value.
C14_ShortCircuitKeepsLog ==
    desc.name = "Writer" =>
        /\ \A i \in Steps :
              (i > 1 /\ hist[i].op = "flatMap") =>
                  IF Failed(hist[i - 1].inst)
                  THEN /\ FnCalls(hist[i].tr) = 0
                       /\ hist[i].inst.m = hist[i - 1].inst.m
                  ELSE /\ FnCalls(hist[i].tr) = 1
                       /\ hist[i].inst.m[3]
                              = hist[i - 1].inst.m[3] \o CallsOf(hist[i])[1][3].m[3]
        /\ (obs.op = "run" => obs.ret = Cur.m)

\* ResultT: log "a;", a step that fails with log "b;", a later step, run().
C14_Witness ==
    /\ desc.name = "Writer" /\ kind = "ResultT"
    /\ Len(hist) = 3
    /\ LayerOk(hist[1].inst) /\ hist[1].inst.m[3] = "a;"
    /\ hist[2].op = "flatMap" /\ CallsOf(hist[2])[1][3].m[3] = "b;"
    /\ LayerErrs(hist[2].inst) = {"e1"}
    /\ hist[3].op = "flatMap"
    /\ obs.op = "run" /\ obs.ret = Writer(Err("e1"), "a;b;")

AppliedTo(entry, a) ==
    /\ Len(CallsOf(entry)) >= 1
    /\ \A n \in 1..Len(CallsOf(entry)) : CallsOf(entry)[n][2] = a

\* C16: ResultT.map.  On Err(e) the result is Err(e) and fn is not invoked;
\* on Ok(a) the result is Ok(fn(a)); run() returns that value.
C16_ResultTMap ==
    kind = "ResultT" =>
        /\ \A i \in Steps : \A r \in Layer(hist[IF i > 1 THEN i - 1 ELSE 1].inst) :
              (i > 1 /\ hist[i].op = "map") =>
                  IF isErr(r)
                  THEN /\ Layer(hist[i].inst) = {Err(r[2])}
                       /\ FnCalls(hist[i].tr) = 0
                  ELSE /\ AppliedTo(hist[i], r[2])
                       /\ Layer(hist[i].inst) = {Ok(CallsOf(hist[i])[1][3])}
        /\ (obs.op = "run" => obs.ret = Cur.m)

\* map on Ok changing the value, then map on an Err made by flatMap.
C16_Witness ==
    /\ kind = "ResultT" /\ desc.name = "Maybe"
    /\ Len(hist) = 3
    /\ hist[1].inst.m = Some(Ok(Num(0)))
    /\ hist[2].op = "map" /\ hist[2].inst.m = Some(Ok(Num(1)))
    /\ hist[3].op = "flatMap" /\ hist[3].inst.m = Some(Err("e2"))
    /\ obs.op = "run"

\* C17: MaybeT.map.  On absent the result is absent and fn is not invoked;
\* on present(a) the result is present(fn(a)), also when fn(a) is null or
\* undefined; run() returns that value.
C17_MaybeTMap ==
    kind = "MaybeT" =>
        /\ \A i \in Steps : \A o \in Layer(hist[IF i > 1 THEN i - 1 ELSE 1].inst) :
              (i > 1 /\ hist[i].op = "map") =>
                  IF o = None
                  THEN /\ Layer(hist[i].inst) = {None}
                       /\ FnCalls(hist[i].tr) = 0
                  ELSE /\ AppliedTo(hist[i], o[2])
                       /\ Layer(hist[i].inst) = {Some(CallsOf(hist[i])[1][3])}
        /\ (obs.op = "run" => obs.ret = Cur.m)

\* A present number mapped to null stays present.
C17_Witness ==
    /\ kind = "MaybeT" /\ desc.name = "Result"
    /\ Len(hist) = 2
    /\ hist[1].inst.m = Ok(Some(Num(1)))
    /\ hist[2].op = "map" /\ hist[2].inst.m = Ok(Some(Null))
    /\ obs.op = "run"

\* C18: WriterT.map leaves the log untouched.  Every map step on a pair
\* (a, w) gives (fn(a), w) with the same w and calls monoid.concat never,
\* however many map steps are chained.
C18_WriterTMapKeepsLog ==
    kind = "WriterT" =>
        \A i \in Steps : \A p \in Layer(hist[IF i > 1 THEN i - 1 ELSE 1].inst) :
            (i > 1 /\ hist[i].op = "map") =>
                /\ AppliedTo(hist[i], p[2])
                /\ Layer(hist[i].inst) = {Pair(CallsOf(hist[i])[1][3], p[3])}
                /\ EvCount(hist[i].tr, "concat") = 0

\* Two chained maps on a pair with a non-empty log.
C18_Witness ==
    /\ kind = "WriterT" /\ desc.name = "Identity" /\ desc.hasMap /\ monoid = "array"
    /\ Len(hist) = 3
    /\ hist[1].inst.m = Pair(Num(0), <<"a">>)
    /\ hist[2].op = "map" /\ hist[2].inst.m = Pair(Num(1), <<"a">>)
    /\ hist[3].op = "map" /\ hist[3].inst.m = Pair(Null, <<"a">>)

\* What T.of(a).run() is to be: present(a), Ok(a), a, or (a, monoid.empty),
\* inside descriptor.of.
OfShape(a) ==
    LET inM(x) == MonadOf(desc, x).ret
    IN CASE kind = "MaybeT" -> inM(Some(a))
         [] kind = "ResultT" -> inM(Ok(a))
         [] kind = "ReaderT" -> [r \in Env |-> inM(a)]
         [] kind = "WriterT" -> inM(Pair(a, Monoid_empty(monoid)))

\* C19: lift after of equals of.  For every transformer, descriptor and
\* value a, T.lift(descriptor.of(a)) and T.of(a) are equal after run(), with
\* and without descriptor.map, and are the value a wrapped as present / Ok /
\* constant / (a, monoid.empty).
C19_LiftOfIsOf ==
    obs.op = "liftOf" =>
        /\ obs.lhs = obs.rhs
        /\ obs.lhsMap = obs.rhs
        /\ obs.rhs = OfShape(obs.a)

\* null lifted over the Maybe descriptor.
C19_Witness ==
    /\ obs.op = "liftOf"
    /\ kind = "MaybeT" /\ desc.name = "Maybe"
    /\ obs.a = Null
    /\ obs.lhs = Some(Some(Null))

\* C20: from/run round trip.  T.from(m).run() is the given m for MaybeT,
\* ResultT and WriterT, and T.from(fn).run(env) is fn(env) for ReaderT under
\* every env.
C20_FromRunRoundTrip ==
    obs.op = "fromRun" =>
        IF kind = "ReaderT"
        THEN \A r \in Env : obs.ran[r] = obs.arg.app[r]
        ELSE obs.ran = obs.arg

\* A reader made from the function that reads the environment.
C20_Witness ==
    /\ obs.op = "fromRun"
    /\ kind = "ReaderT" /\ desc.name = "Result"
    /\ obs.arg.id = <<"ask">>
    /\ obs.ran[1] = Ok(Num(1))

C22_ReaderTDefers ==
    kind = "ReaderT" => \A i \in Steps : hist[i].tr = <<>>

\* A reader made by from and flatMap whose run invokes the environment
\* function and the continuation.
C22_Witness ==
    /\ kind = "ReaderT"
    /\ Len(hist) = 2 /\ hist[1].op = "from" /\ hist[2].op = "flatMap"
    /\ hist[1].tr = <<>> /\ hist[2].tr = <<>>
    /\ obs.op = "run"
    /\ EvCount(obs.tr, "envfn") >= 1 /\ FnCalls(obs.tr) = 1

\* The environment-function calls one run(r) of a reader makes.
EnvCalls(tr) == SelectSeq(tr, LAMBDA ev : ev[1] = "envfn")

\* C23: ReaderT effect order.  Over the identity descriptor, one run(env) of
\* r1.flatMap(k1).flatMap(k2), with r2 and r3 the readers the continuations
\* return, invokes the environment functions of r1, r2 and r3 in that order,
\* each with env and no more often than r1, r2 and r3 run alone do, calls
\* each continuation once, and returns the value of r3.
C23_ReaderTEffectOrder ==
    (/\ kind = "ReaderT" /\ desc.name = "Identity"
     /\ Len(hist) = 3 /\ hist[1].op = "from"
     /\ hist[2].op = "flatMap" /\ hist[3].op = "flatMap"
     /\ obs.op = "run")
    => LET calls == SelectSeq(obs.tr, LAMBDA ev : ev[1] = "fn")
           r1 == hist[1].inst
       IN /\ Len(calls) = 2
          /\ LET r2 == calls[1][3]
                 r3 == calls[2][3]
             IN /\ EnvCalls(obs.tr)
                       = EnvCalls(r1.fn[obs.env].tr)
                            \o EnvCalls(r2.fn[obs.env].tr)
                            \o EnvCalls(r3.fn[obs.env].tr)
                /\ obs.ret = r3.fn[obs.env].ret
          /\ \A n \in 1..Len(obs.tr) :
                obs.tr[n][1] = "envfn" => obs.tr[n][3] = obs.env

\* Three different environment functions, run with environment 1.
C23_Witness ==
    /\ kind = "ReaderT" /\ desc.name = "Identity"
    /\ Len(hist) = 3 /\ hist[1].op = "from"
    /\ hist[2].op = "flatMap" /\ hist[3].op = "flatMap"
    /\ obs.op = "run" /\ obs.env = 1
    /\ EnvCalls(obs.tr) = << <<"envfn", <<"ask">>, 1>>,
                             <<"envfn", <<"const", Num(0)>>, 1>>,
                             <<"envfn", <<"const", Null>>, 1>> >>
    /\ obs.ret = Null

\* ---------------------------------------------------------------------------
\* Maybe objects.  An object is its address and its value; None.instance is
\* allocated once, when the class is loaded, at address 0.  hist is the heap
\* of the objects the calls returned, entry i made with free address i.
\* ---------------------------------------------------------------------------

\* static readonly instance = new None<never>()
None_instance == [addr |-> 0, val |-> None]

\* Maybe.some(value): new Some(value), at the free address a.
Maybe_some(value, a) == [addr |-> a, val |-> Some(value)]

\* Maybe.none(): None.instance.
Maybe_none(a) == None_instance

\* The object a call of Maybe.some(v) or Maybe.none() returns.
Maybe_make(m, a) == IF isSome(m) THEN Maybe_some(m[2], a) ELSE Maybe_none(a)

\* Mutant: None.map builds a new None.
None_map_Fresh(self, fn, a) == Pure([addr |-> a, val |-> None])

\* None.map and None.flatMap: None.instance, fn not called.
None_map_obj(self, fn, a) == Pure(None_instance)
None_flatMap_obj(self, fn, a) == Pure(None_instance)

\* Some.map: new Some(fn(this.value)); Some.flatMap: fn(this.value), fn
\* building its result with Maybe.some or Maybe.none.
Maybe_map_obj(self, fn, a) ==
    IF isSome(self.val)
    THEN LET r == fn[self.val[2]] IN Ret(r, Maybe_some(r.ret, a))
    ELSE None_map_obj(self, fn, a)
Maybe_flatMap_obj(self, fn, a) ==
    IF isSome(self.val)
    THEN LET r == fn[self.val[2]] IN Ret(r, Maybe_make(r.ret, a))
    ELSE None_flatMap_obj(self, fn, a)

\* x => x === p ? Maybe.none() : Maybe.some(x), and _ => Maybe.none().
MaybeConts ==
    {[v \in Val |-> IF v = p THEN None ELSE Some(v)] : p \in Val}
        \cup {[v \in Val |-> None]}

InitMaybe ==
    /\ kind = "Maybe" /\ desc = [name |-> "none"] /\ monoid = "none"
    /\ hist = <<>> /\ obs = NoObs

MaybeCreate(m) ==
    /\ Len(hist) < 4
    /\ hist' = Append(hist, [op |-> IF isSome(m) THEN "some" ELSE "none",
                             recv |-> 0, tr |-> <<>>,
                             obj |-> Maybe_make(m, Len(hist) + 1)])
    /\ UNCHANGED <<kind, desc, monoid, obs>>

MaybeMapOn(i, fn) ==
    /\ Len(hist) < 4
    /\ LET c == Maybe_map_obj(hist[i].obj, Fn(fn), Len(hist) + 1)
       IN hist' = Append(hist, [op |-> "map", recv |-> i,
                                tr |-> c.tr, obj |-> c.ret])
    /\ UNCHANGED <<kind, desc, monoid, obs>>

MaybeFlatMapOn(i, fn) ==
    /\ Len(hist) < 4
    /\ LET c == Maybe_flatMap_obj(hist[i].obj, Fn(fn), Len(hist) + 1)
       IN hist' = Append(hist, [op |-> "flatMap", recv |-> i,
                                tr |-> c.tr, obj |-> c.ret])
    /\ UNCHANGED <<kind, desc, monoid, obs>>

NextMaybe ==
    \/ \E m \in {None} \cup {Some(v) : v \in Val} : MaybeCreate(m)
    \/ \E i \in 1..Len(hist), fn \in MapFns : MaybeMapOn(i, fn)
    \/ \E i \in 1..Len(hist), fn \in MaybeConts : MaybeFlatMapOn(i, fn)

SpecMaybe == InitMaybe /\ [][NextMaybe]_vars

\* C24: None is a singleton.  Every None any call returns is the one object
\* None.instance, and map and flatMap on it return that same object without
\* calling fn, so every chain starting at None stays at None.instance.
C24_NoneSingleton ==
    \A i \in 1..Len(hist) :
        /\ hist[i].obj.val = None => hist[i].obj = None_instance
        /\ (hist[i].recv > 0 /\ hist[hist[i].recv].obj = None_instance)
              => hist[i].obj = None_instance /\ hist[i].tr = <<>>

\* none().map(f).flatMap(k), and a second none(): one object four times.
C24_Witness ==
    /\ Len(hist) = 4
    /\ hist[1].op = "none"
    /\ hist[2].op = "map" /\ hist[2].recv = 1
    /\ hist[3].op = "flatMap" /\ hist[3].recv = 2
    /\ hist[4].op = "none"
    /\ \A i \in 1..4 : hist[i].obj = None_instance /\ hist[i].tr = <<>>

\* ---------------------------------------------------------------------------
\* Result.fromTry, the optics and bounded: pure functions, each applied by
\* one action to inputs drawn from small sets; obs records the one call a
\* behaviour makes.
\* ---------------------------------------------------------------------------

\* What fn() can do: return a value, throw an Error, throw a string.
Thunks ==
    [throws : {FALSE}, val : Val]
        \cup [throws : {TRUE}, val : {<<"Error", m>> : m \in Errs}
                                        \cup {<<"str", m>> : m \in Errs}]

\* (err) => (err as Error).message, (err) => String(err), () => 'error'.
Handlers ==
    LET Thrown == {t.val : t \in {u \in Thunks : u.throws}}
    IN {[e \in Thrown |-> IF e[1] = "Error" THEN <<"str", e[2]>> ELSE Undefined],
        [e \in Thrown |-> IF e[1] = "Error" THEN <<"str", "Error", e[2]>> ELSE e],
        [e \in Thrown |-> <<"str", "error">>]}

\* Mutant: the caught value goes into Err as it is.
Result_fromTry_Unhandled(fn, errorHandler) ==
    IF fn.throws
    THEN [ret |-> Err(fn.val), tr |-> << <<"thunk">> >>]
    ELSE [ret |-> Ok(fn.val), tr |-> << <<"thunk">> >>]

\* try { return ok(fn()) } catch (error) { return err(errorHandler(error)) }
Result_fromTry(fn, errorHandler) ==
    IF fn.throws
    THEN LET h == CallFn(errorHandler, fn.val)
         IN [ret |-> Err(h.ret), tr |-> << <<"thunk">> >> \o h.tr]
    ELSE [ret |-> Ok(fn.val), tr |-> << <<"thunk">> >>]

\* The structures of the lens test: S holds two A, A holds two numbers.
LensA == [x : Env, y : Env]
LensS == [u : LensA, v : LensA]

\* Lenses from S to A: two field lenses with spread setters, one whose set
\* also overwrites the other field, and one whose set does nothing (it
\* breaks get(set(a, s)) = a).  A setter builds a new structure.
Lens1 ==
    [n \in {"u", "v", "both", "stuck"} |->
        [get |-> [s \in LensS |-> IF n = "v" THEN s.v ELSE s.u],
         set |-> [p \in LensA \X LensS |->
                    CASE n = "u" -> [p[2] EXCEPT !.u = p[1]]
                      [] n = "v" -> [p[2] EXCEPT !.v = p[1]]
                      [] n = "both" -> [u |-> p[1], v |-> p[1]]
                      [] n = "stuck" -> p[2]]]]

\* Lenses from A to a number, the same four.
Lens2 ==
    [n \in {"x", "y", "both", "stuck"} |->
        [get |-> [s \in LensA |-> IF n = "y" THEN s.y ELSE s.x],
         set |-> [p \in Env \X LensA |->
                    CASE n = "x" -> [p[2] EXCEPT !.x = p[1]]
                      [] n = "y" -> [p[2] EXCEPT !.y = p[1]]
                      [] n = "both" -> [x |-> p[1], y |-> p[1]]
                      [] n = "stuck" -> p[2]]]]

\* Mutant: set writes the old focus back.
Lens_compose_KeepsFocus(lens1, lens2) ==
    [get |-> [s \in DOMAIN lens1.get |-> lens2.get[lens1.get[s]]],
     set |-> [p \in {q[1] : q \in DOMAIN lens2.set} \X (DOMAIN lens1.get) |->
                [ret |-> lens1.set[<<lens1.get[p[2]], p[2]>>], s |-> p[2]]]]

\* Lens.compose(lens1, lens2).  set gives the structure it returns and the
\* structure s as it is after the call: compose assigns to nothing.
Lens_compose(lens1, lens2) ==
    [get |-> [s \in DOMAIN lens1.get |-> lens2.get[lens1.get[s]]],
     set |-> [p \in {q[1] : q \in DOMAIN lens2.set} \X (DOMAIN lens1.get) |->
                [ret |-> lens1.set[<<lens2.set[<<p[1], lens1.get[p[2]]>>], p[2]>>],
                 s |-> p[2]]]]

\* The structures of the prism test: Outer = { a?: Inner }, Inner = { b }.
PrismInner == {<<"inner", b>> : b \in Nums}
PrismOuter == {<<"outer", a>> : a \in PrismInner \cup {Null, Undefined}}

\* aPrism, and a prism that never finds its focus; bPrism.
Prism1 ==
    [n \in {"a", "missing"} |->
        [get |-> [s \in PrismOuter |-> IF n = "a" THEN s[2] ELSE Undefined],
         set |-> [p \in PrismInner \X PrismOuter |-> <<"outer", p[1]>>]]]
Prism2 ==
    [get |-> [i \in PrismInner |-> i[2]],
     set |-> [p \in Nums \X PrismInner |-> <<"inner", p[1]>>]]

\* Mutant: second.get is called on whatever first.get returned.
Prism_compose_get_Unchecked(first, second, s) ==
    LET a == first.get[s]
    IN [ret |-> IF IsNullish(a) THEN a ELSE second.get[a],
        tr |-> << <<"first.get", s>>, <<"second.get", a>> >>]

\* Prism.compose(first, second).get(s) and .set(b, s), with their calls.
Prism_compose_get(first, second, s) ==
    LET a == first.get[s]
    IN IF ~IsNullish(a)
       THEN [ret |-> second.get[a],
             tr |-> << <<"first.get", s>>, <<"second.get", a>> >>]
       ELSE [ret |-> Null, tr |-> << <<"first.get", s>> >>]
Prism_compose_set(first, second, b, s) ==
    LET a == first.get[s]
    IN IF ~IsNullish(a)
       THEN LET a2 == second.set[<<b, a>>]
            IN [ret |-> first.set[<<a2, s>>],
                tr |-> << <<"first.get", s>>, <<"second.set", b, a>>,
                          <<"first.set", a2, s>> >>]
       ELSE [ret |-> s, tr |-> << <<"first.get", s>> >>]

\* Mutant: no upper limit.
bounded_NoMax(min, max, inclusive, value) ==
    IF (IF inclusive.min THEN value < min ELSE value <= min) THEN min ELSE value

\* bounded(min, max, inclusive)(value)
bounded(min, max, inclusive, value) ==
    LET minCpFn == IF inclusive.min THEN value < min ELSE value <= min
        maxCpFn == IF inclusive.max THEN value > max ELSE value >= max
    IN IF minCpFn THEN min ELSE IF maxCpFn THEN max ELSE value

InitUtil ==
    /\ kind = "Util" /\ desc = [name |-> "none"] /\ monoid = "none"
    /\ hist = <<>> /\ obs = NoObs

FromTry(fn, errorHandler) ==
    /\ obs = NoObs
    /\ LET c == Result_fromTry(fn, errorHandler)
       IN obs' = [op |-> "fromTry", fn |-> fn, errorHandler |-> errorHandler,
                  ret |-> c.ret, tr |-> c.tr]
    /\ UNCHANGED <<kind, desc, monoid, hist>>

\* c = Lens.compose(l1, l2); s2 = c.set(b, s); c.get(s2)
LensSetGet(n1, n2, b, s) ==
    /\ obs = NoObs
    /\ LET c == Lens_compose(Lens1[n1], Lens2[n2])
           r == c.set[<<b, s>>]
       IN obs' = [op |-> "lens", lens1 |-> n1, lens2 |-> n2, b |-> b,
                  s |-> s, after |-> r.s, set |-> r.ret, get |-> c.get[r.ret]]
    /\ UNCHANGED <<kind, desc, monoid, hist>>

\* c = Prism.compose(first, bPrism); c.get(s); c.set(b, s)
PrismGetSet(n1, b, s) ==
    /\ obs = NoObs
    /\ obs' = [op |-> "prism", first |-> n1, b |-> b, s |-> s,
               get |-> Prism_compose_get(Prism1[n1], Prism2, s),
               set |-> Prism_compose_set(Prism1[n1], Prism2, b, s)]
    /\ UNCHANGED <<kind, desc, monoid, hist>>

Bounded(min, max, inclusive, value) ==
    /\ obs = NoObs
    /\ obs' = [op |-> "bounded", min |-> min, max |-> max,
               inclusive |-> inclusive, value |-> value,
               ret |-> bounded(min, max, inclusive, value)]
    /\ UNCHANGED <<kind, desc, monoid, hist>>

NextUtil ==
    \/ \E fn \in Thunks, h \in Handlers : FromTry(fn, h)
    \/ \E n1 \in DOMAIN Lens1, n2 \in DOMAIN Lens2, b \in Env, s \in LensS :
          LensSetGet(n1, n2, b, s)
    \/ \E n1 \in DOMAIN Prism1, b \in Nums, s \in PrismOuter :
          PrismGetSet(n1, b, s)
    \/ \E min, max, value \in (0 - MaxNum - 1)..(MaxNum + 1),
          inclusive \in [min : BOOLEAN, max : BOOLEAN] :
          Bounded(min, max, inclusive, value)

SpecUtil == InitUtil /\ [][NextUtil]_vars

\* C25: Result.fromTry(fn, handler) is Ok(fn()) with handler not called when
\* fn returns, and Err(handler(e)) with handler called once, on e, when fn
\* throws e, an Error or not; either way it returns a Result.
C25_FromTry ==
    obs.op = "fromTry"
    => IF obs.fn.throws
       THEN /\ obs.ret = Err(obs.errorHandler[obs.fn.val])
            /\ FnCalls(obs.tr) = 1
            /\ \E n \in 1..Len(obs.tr) :
                  obs.tr[n] = <<"fn", obs.fn.val, obs.errorHandler[obs.fn.val]>>
       ELSE obs.ret = Ok(obs.fn.val) /\ FnCalls(obs.tr) = 0

\* fn throws the string "e1" and the handler reads .message: Err(undefined).
C25_Witness ==
    /\ obs.op = "fromTry"
    /\ obs.fn = [throws |-> TRUE, val |-> <<"str", "e1">>]
    /\ obs.errorHandler[<<"Error", "e1">>] = <<"str", "e1">>
    /\ obs.ret = Err(Undefined)

C27_PrismComposeMissing ==
    (obs.op = "prism" /\ IsNullish(Prism1[obs.first].get[obs.s]))
    => /\ obs.get.ret = Null
       /\ EvCount(obs.get.tr, "second.get") = 0
       /\ obs.set.ret = obs.s
       /\ EvCount(obs.set.tr, "first.set") = 0
       /\ EvCount(obs.set.tr, "second.set") = 0

\* aPrism on { a: undefined }: first.get was called, and get gave null.
C27_Witness ==
    /\ obs.op = "prism" /\ obs.first = "a"
    /\ obs.s = <<"outer", Undefined>>
    /\ obs.get = [ret |-> Null, tr |-> << <<"first.get", obs.s>> >>]
    /\ obs.set = [ret |-> obs.s, tr |-> << <<"first.get", obs.s>> >>]

\* C28: bounded clamps.  For integers min <= max and every integer value,
\* bounded(min, max, inclusive)(value) is min below min, max above max and
\* value in between, whatever the two inclusive flags are (a value equal to
\* a boundary gives that boundary), so the result lies in [min, max].
C28_BoundedClamps ==
    (obs.op = "bounded" /\ obs.min <= obs.max)
    => /\ obs.value < obs.min => obs.ret = obs.min
       /\ obs.value > obs.max => obs.ret = obs.max
       /\ (obs.min <= obs.value /\ obs.value <= obs.max) => obs.ret = obs.value
       /\ obs.min <= obs.ret /\ obs.ret <= obs.max

\* Both flags exclusive, min < max, and a value above max.
C28_Witness ==
    /\ obs.op = "bounded"
    /\ obs.inclusive = [min |-> FALSE, max |-> FALSE]
    /\ obs.min < obs.max /\ obs.value > obs.max
    /\ obs.ret = obs.max

----------------------------------------------------------------------------
\* Chains whose continuations return instances of another factory; run()
\* is observed on the optional transformer, where it takes no argument.

\* Continuations built by a second factory of the same transformer: over
\* another descriptor object of the same inner monad (the one with map for
\* the one without, and the reverse) and, for WriterT, another monoid
\* object, its logs in the carrier of the receiver's.
ForeignConts(k, d, mon) ==
    LET other == CHOOSE o \in Monoids \cup {"none"} : o # mon
    IN {[v \in Val |-> IF k = "WriterT"
                       THEN [f[v] EXCEPT !.monoid = other]
                       ELSE f[v]] :
           f \in Conts(k, WithMap(d, ~d.hasMap), mon)}

NextClosure ==
    \/ \E a \in Val : Of(a)
    \/ \E m \in FromArgs(kind, desc, monoid) : From(m)
    \/ \E m \in MOf(desc, Val) : Lift(m)
    \/ \E i \in {Len(hist)} \ {0}, fn \in MapFns : MapOn(i, fn)
    \/ \E i \in {Len(hist)} \ {0}, fn \in Conts(kind, desc, monoid) :
          FlatMapOn(i, fn)
    \/ \E i \in {Len(hist)} \ {0}, fn \in ForeignConts(kind, desc, monoid) :
          FlatMapOn(i, fn)
    \/ kind = "MaybeT" /\ Run(0)

SpecClosure == Init /\ [][NextClosure]_vars

\* C29: descriptor closure.  Every instance map or flatMap returns carries
\* the inner-monad descriptor of its receiver and, for WriterT, its monoid,
\* however long the chain is and whichever factory built the instances the
\* continuations return; so all of them carry the factory's own.
C29_DescriptorClosure ==
    \A i \in 1..Len(hist) :
        /\ hist[i].inst.monad = desc
        /\ kind = "WriterT" => hist[i].inst.monoid = monoid
        /\ hist[i].op \in {"map", "flatMap"}
              => /\ hist[i].inst.monad = hist[hist[i].recv].inst.monad
                 /\ kind = "WriterT"
                       => hist[i].inst.monoid = hist[hist[i].recv].inst.monoid

\* flatMap called a continuation that returned an instance of another
\* factory, and map was then called on the result.
C29_Witness ==
    /\ kind = "MaybeT" /\ Len(hist) = 3
    /\ hist[2].op = "flatMap" /\ hist[2].recv = 1
    /\ \E n \in 1..Len(hist[2].tr) :
          hist[2].tr[n][1] = "fn" /\ hist[2].tr[n][3].monad # desc
    /\ hist[3].op = "map" /\ hist[3].recv = 2
    /\ hist[3].inst.monad = desc

\* C30: MaybeT effect shape.  Over the identity descriptor, whatever of,
\* from(Some or None), lift, map and flatMap calls built the instance, run()
\* returns a Some or None and never a raw value, also when a mapped function
\* returns null or undefined and when a continuation returns absent.
C30_MaybeTShape ==
    (kind = "MaybeT" /\ desc.name = "Identity")
    => /\ \A i \in 1..Len(hist) :
             LET m == MaybeT_run(hist[i].inst) IN m = None \/ isSome(m)
       /\ obs.op = "run" => (obs.ret = None \/ isSome(obs.ret))

\* lift(1), a continuation that is called, then a mapped function that
\* returns null; run() is Some(null).
C30_Witness ==
    /\ kind = "MaybeT" /\ desc.name = "Identity"
    /\ Len(hist) = 3
    /\ hist[1].op = "lift" /\ hist[1].inst.m = Some(Num(1))
    /\ hist[2].op = "flatMap" /\ FnCalls(hist[2].tr) = 1
    /\ hist[3].op = "map" /\ FnCalls(hist[3].tr) = 1
    /\ obs.op = "run" /\ obs.ret = Some(Null)

====
